---- MODULE Spec2Model ----
(***************************************************************************)
(* Authorization core of the habit/challenge tracking backend:             *)
(*   - PlanPermissionService / PlanParticipantService / PlanService        *)
(*     (per-plan participant roles, rank comparison, membership changes)   *)
(*   - UserService role operations (assign / remove / replace)             *)
(*                                                                         *)
(* The plan part models the rows of ONE plan id: every operation of the    *)
(* source is keyed by planId and reads and writes only rows whose plan_id  *)
(* is that id, so the model is parametric in the plan.  Likewise the role  *)
(* part models the user_roles rows of one user id.                         *)
(***************************************************************************)
EXTENDS Integers, Sequences, FiniteSets, TLC

\* ---------------------------------------------------------------- bounds
NumUsers == 3        \* user rows 1..NumUsers
MaxInvited == 2      \* longest participants list given to PlanService.create
MaxCodes == 2        \* longest roleCodes list given to a role operation

Users == 1..NumUsers
\* an identifier (user_key / phone) sent by a client: 0 = neither field
\* given, NumUsers + 1 = an identifier that resolves to no user row
UserRefs == 0..(NumUsers + 1)

\* ------------------------------------------------- ParticipantRole, ranks
ParticipantRole == {"viewer", "member", "admin", "owner"}
null == "none"
RoleOrNull == ParticipantRole \cup {null}

roleLevel ==
  [r \in ParticipantRole |->
     CASE r = "owner" -> 4 [] r = "admin" -> 3 [] r = "member" -> 2 [] r = "viewer" -> 1]

\* ------------------------------------------------------------- variables
VARIABLES
  planExists,    \* the plan row exists
  is_public,     \* Plan.is_public
  creator,       \* Plan.creator (0 while the plan does not exist)
  participants,  \* plan_participants rows of the plan: user id -> role or null
  last,          \* outcome of the last plan request: [op, kind, msg]
  userRoles,     \* user_roles rows of the user: set of role codes held
  lastR,         \* outcome of the last role request: [op, kind, missing]
  reqs,          \* concurrent plan requests in flight (SpecConc)
  rreqs,         \* concurrent removeRole requests in flight (SpecRemoveRace)
  rolesAtStart,  \* role set of the user before the requests began
  trip,          \* assignRoles followed by removeRole (SpecRoundTrip)
  ureqs,         \* concurrent replaceRoles requests in flight (SpecReplaceRace)
  rolePerms,     \* role_permissions rows: role code -> set of permission codes
  lastP,         \* last permission request: [op, role, codes, kind, result]
  lockStore,     \* value stored under the Redis key lock:K, or "none"
  lreqs,         \* callers of DistributedLockService (SpecLock)
  roleRows,      \* rows of the roles table: role -> row or null (SpecRoleAdmin)
  userExists,    \* the users row of the user exists
  summary        \* last result of getPermissionSummary (SpecSummary)

planVars == <<planExists, is_public, creator, participants, last>>
roleVars == <<userRoles, lastR>>
concVars == <<reqs>>
raceVars == <<rreqs, rolesAtStart>>
tripVars == <<trip>>
replaceVars == <<ureqs>>
permVars == <<rolePerms, lastP>>
lockVars == <<lockStore, lreqs>>
adminVars == <<roleRows>>
acctVars == <<userExists>>
sumVars == <<summary>>
laterVars == <<lockVars, adminVars, acctVars, sumVars>>
vars == <<planExists, is_public, creator, participants, last, userRoles, lastR,
          reqs, rreqs, rolesAtStart, trip, ureqs, rolePerms, lastP,
          lockStore, lreqs, roleRows, userExists, summary>>

\* no lock, no roles administration and no summary request; the user whose
\* roles are modelled exists
LaterUnused ==
  /\ lockStore = <<>>
  /\ lreqs = <<>>
  /\ roleRows = <<>>
  /\ userExists = TRUE
  /\ summary = <<>>

\* the variables of the specifications that are not running
Unused ==
  trip = <<>> /\ ureqs = <<>> /\ rolePerms = <<>> /\ lastP = <<>> /\ LaterUnused

\* ------------------------------------------------------ request outcomes
Ok == [kind |-> "ok", msg |-> ""]
Err(k, m) == [kind |-> k, msg |-> m]
Outcome(op, res) == [op |-> op, kind |-> res.kind, msg |-> res.msg]

NoParticipants == [u \in Users |-> null]

\* ------------------------------------------------- PlanPermissionService
getUserRole(parts, userId) == parts[userId]

isParticipant(parts, userId) == getUserRole(parts, userId) # null

\* the comparison of hasRole on an already fetched role
hasRoleLevel_strict(userRole, requiredRole) ==
  IF userRole = null THEN FALSE
  ELSE roleLevel[userRole] > roleLevel[requiredRole]

hasRoleLevel(userRole, requiredRole) ==
  IF userRole = null THEN FALSE
  ELSE roleLevel[userRole] >= roleLevel[requiredRole]

hasRole(parts, userId, requiredRole) ==
  hasRoleLevel(getUserRole(parts, userId), requiredRole)

\* userId = 0 is a request without user id (the optional parameter is falsy)
canViewPlan(exists, pub, parts, userId) ==
  IF ~exists THEN Err("NotFound", "Plan not found")
  ELSE IF pub THEN [kind |-> "ok", msg |-> "true"]
  ELSE IF userId = 0 THEN [kind |-> "ok", msg |-> "false"]
  ELSE [kind |-> "ok", msg |-> IF isParticipant(parts, userId) THEN "true" ELSE "false"]

canViewTasks(exists, pub, parts, userId) == canViewPlan(exists, pub, parts, userId)

canCreateTask(parts, userId) == hasRole(parts, userId, "member")
canModifyTask(parts, userId) == hasRole(parts, userId, "member")
canDeleteTask(parts, userId) == hasRole(parts, userId, "admin")
canModifyPlan(parts, userId) == hasRole(parts, userId, "admin")
canDeletePlan(parts, userId) == hasRole(parts, userId, "owner")
canInviteMembers(parts, userId) == hasRole(parts, userId, "admin")
canChangeRole(parts, userId) == hasRole(parts, userId, "owner")

\* the decision of canRemoveMember on the two fetched roles
canRemoveDecision_nonstrict(operatorRole, targetRole) ==
  IF operatorRole = null \/ targetRole = null THEN FALSE
  ELSE IF roleLevel[operatorRole] < roleLevel["admin"] THEN FALSE
  ELSE IF operatorRole = "owner" THEN targetRole # "owner"
  ELSE roleLevel[operatorRole] >= roleLevel[targetRole]

canRemoveDecision(operatorRole, targetRole) ==
  IF operatorRole = null \/ targetRole = null THEN FALSE
  ELSE IF roleLevel[operatorRole] < roleLevel["admin"] THEN FALSE
  ELSE IF operatorRole = "owner" THEN targetRole # "owner"
  ELSE roleLevel[operatorRole] > roleLevel[targetRole]

canRemoveMember(parts, operatorId, targetUserId) ==
  canRemoveDecision(getUserRole(parts, operatorId), getUserRole(parts, targetUserId))

\* ------------------------------------------------- identifier resolution
\* findUserByKeyOrPhone: BadRequest without identifier, NotFound when the
\* identifier matches no user row, else the user id
findUserByKeyOrPhone(ref) ==
  IF ref = 0 THEN Err("BadRequest", "Must provide user_key or phone")
  ELSE IF ref \notin Users THEN Err("NotFound", "User not found")
  ELSE Ok

\* ------------------------------------------------------------ PlanService
\* an entry of CreatePlanDto.participants: identifier and optional role
InvitedEntries == [ref : UserRefs, role : RoleOrNull]
InvitedLists == UNION {[1..n -> InvitedEntries] : n \in 0..MaxInvited}

\* p.role || ParticipantRole.member
roleOrMember(role) == IF role = null THEN "member" ELSE role

\* the first identifier of the list that does not resolve, if any
RECURSIVE resolveAll(_)
resolveAll(list) ==
  IF list = <<>> THEN Ok
  ELSE IF findUserByKeyOrPhone(Head(list).ref).kind # "ok"
       THEN findUserByKeyOrPhone(Head(list).ref)
       ELSE resolveAll(Tail(list))

\* planParticipant.createMany({skipDuplicates: true}): rows are inserted in
\* order, a row whose (plan_id, user_id) already exists is skipped
RECURSIVE createManySkipDuplicates(_, _)
createManySkipDuplicates(parts, list) ==
  IF list = <<>> THEN parts
  ELSE createManySkipDuplicates(
         IF parts[Head(list).ref] = null
           THEN [parts EXCEPT ![Head(list).ref] = roleOrMember(Head(list).role)]
           ELSE parts,
         Tail(list))

createOutcome(list) == resolveAll(list)

\* PlanService.create: one interactive transaction; an identifier that does
\* not resolve throws inside it and rolls the plan row back
Create(userId, pub, list) ==
  /\ ~planExists
  /\ LET res == createOutcome(list) IN
       /\ last' = Outcome("create", res)
       /\ IF res.kind = "ok"
            THEN /\ planExists' = TRUE
                 /\ is_public' = pub
                 /\ creator' = userId
                 /\ participants' =
                      createManySkipDuplicates(
                        [NoParticipants EXCEPT ![userId] = "owner"], list)
            ELSE UNCHANGED <<planExists, is_public, creator, participants>>
  /\ UNCHANGED <<roleVars, concVars, raceVars, tripVars,
               replaceVars, permVars, laterVars>>

updateOutcome(exists, parts, userId) ==
  IF ~exists THEN Err("NotFound", "Plan not found")
  ELSE IF ~canModifyPlan(parts, userId)
    THEN Err("Forbidden", "You do not have permission to modify this plan")
  ELSE Ok

\* PlanService.update; of the plan fields only is_public matters here
Update(userId, pub) ==
  /\ LET res == updateOutcome(planExists, participants, userId) IN
       /\ last' = Outcome("update", res)
       /\ is_public' = IF res.kind = "ok" THEN pub ELSE is_public
  /\ UNCHANGED <<planExists, creator, participants, roleVars, concVars, raceVars, tripVars,
               replaceVars, permVars, laterVars>>

removeOutcome(exists, parts, userId) ==
  IF ~exists THEN Err("NotFound", "Plan not found")
  ELSE IF ~canDeletePlan(parts, userId)
    THEN Err("Forbidden", "You do not have permission to delete this plan")
  ELSE Ok

\* PlanService.remove: deletes the participants and the plan row
Remove(userId) ==
  /\ LET res == removeOutcome(planExists, participants, userId) IN
       /\ last' = Outcome("remove", res)
       /\ IF res.kind = "ok"
            THEN /\ planExists' = FALSE
                 /\ is_public' = FALSE
                 /\ creator' = 0
                 /\ participants' = NoParticipants
            ELSE UNCHANGED <<planExists, is_public, creator, participants>>
  /\ UNCHANGED <<roleVars, concVars, raceVars, tripVars,
               replaceVars, permVars, laterVars>>

\* PlanService.findOne; every user row has a non-null user_key, so
\* participants.some(p => p.user.user_key) is "the plan has a participant"
findOne(exists, pub, parts, userId) ==
  IF ~exists THEN Err("NotFound", "Plan not found")
  ELSE IF ~pub /\ userId # 0
    THEN IF ~(\E u \in Users : parts[u] # null)
           THEN Err("Forbidden", "You do not have permission to view this plan")
           ELSE Ok
  ELSE Ok

FindOne(userId) ==
  /\ last' = Outcome("findOne", findOne(planExists, is_public, participants, userId))
  /\ UNCHANGED <<planExists, is_public, creator, participants,
                 roleVars, concVars, raceVars, tripVars,
               replaceVars, permVars, laterVars>>

\* TaskService.findPlanTasks; participants is included filtered by user_id
\* when a user id is given, and not included at all otherwise
findPlanTasks(exists, pub, parts, userId) ==
  IF ~exists THEN Err("NotFound", "Plan not found")
  ELSE IF ~pub /\ userId # 0
    THEN IF ~(parts[userId] # null)
           THEN Err("Forbidden", "You do not have permission to view tasks of this plan")
           ELSE Ok
  ELSE Ok

FindPlanTasks(userId) ==
  /\ last' = Outcome("findPlanTasks",
                     findPlanTasks(planExists, is_public, participants, userId))
  /\ UNCHANGED <<planExists, is_public, creator, participants,
                 roleVars, concVars, raceVars, tripVars,
               replaceVars, permVars, laterVars>>

\* ------------------------------------------------ PlanParticipantService
joinPlanOutcome(exists, pub, parts, userId) ==
  IF ~exists THEN Err("NotFound", "Plan not found")
  ELSE IF ~pub THEN Err("Forbidden", "Cannot join private plan without invitation")
  ELSE IF parts[userId] # null THEN Err("Conflict", "Already joined this plan")
  ELSE Ok

JoinPlan(userId) ==
  /\ LET res == joinPlanOutcome(planExists, is_public, participants, userId) IN
       /\ last' = Outcome("joinPlan", res)
       /\ participants' = IF res.kind = "ok"
                            THEN [participants EXCEPT ![userId] = "member"]
                            ELSE participants
  /\ UNCHANGED <<planExists, is_public, creator, roleVars, concVars, raceVars, tripVars,
               replaceVars, permVars, laterVars>>

\* inviteParticipant without the elevated-role check
inviteParticipantOutcome_noElevation(parts, inviterId, ref, role) ==
  IF ~canInviteMembers(parts, inviterId)
    THEN Err("Forbidden", "You do not have permission to invite members")
  ELSE IF findUserByKeyOrPhone(ref).kind # "ok" THEN findUserByKeyOrPhone(ref)
  ELSE IF parts[ref] # null THEN Err("Conflict", "User is already a participant")
  ELSE Ok

inviteParticipantOutcome(parts, inviterId, ref, role) ==
  IF ~canInviteMembers(parts, inviterId)
    THEN Err("Forbidden", "You do not have permission to invite members")
  ELSE IF findUserByKeyOrPhone(ref).kind # "ok" THEN findUserByKeyOrPhone(ref)
  ELSE IF parts[ref] # null THEN Err("Conflict", "User is already a participant")
  ELSE IF role \in {"admin", "owner"} /\ getUserRole(parts, inviterId) # "owner"
    THEN Err("Forbidden", "Only owner can invite admin or owner")
  ELSE Ok

InviteParticipant(inviterId, ref, role) ==
  /\ LET res == inviteParticipantOutcome(participants, inviterId, ref, role) IN
       /\ last' = Outcome("inviteParticipant", res)
       /\ participants' = IF res.kind = "ok"
                            THEN [participants EXCEPT ![ref] = roleOrMember(role)]
                            ELSE participants
  /\ UNCHANGED <<planExists, is_public, creator, roleVars, concVars, raceVars, tripVars,
               replaceVars, permVars, laterVars>>

\* leavePlan without the owner check
leavePlanOutcome_noOwnerCheck(parts, userId) ==
  IF parts[userId] = null
    THEN Err("NotFound", "You are not a participant of this plan")
  ELSE Ok

leavePlanOutcome(parts, userId) ==
  IF parts[userId] = null
    THEN Err("NotFound", "You are not a participant of this plan")
  ELSE IF parts[userId] = "owner"
    THEN Err("Conflict", "Owner cannot leave their own plan. Transfer ownership first.")
  ELSE Ok

LeavePlan(userId) ==
  /\ LET res == leavePlanOutcome(participants, userId) IN
       /\ last' = Outcome("leavePlan", res)
       /\ participants' = IF res.kind = "ok"
                            THEN [participants EXCEPT ![userId] = null]
                            ELSE participants
  /\ UNCHANGED <<planExists, is_public, creator, roleVars, concVars, raceVars, tripVars,
               replaceVars, permVars, laterVars>>

removeParticipantOutcome(parts, ref, operatorId) ==
  IF findUserByKeyOrPhone(ref).kind # "ok" THEN findUserByKeyOrPhone(ref)
  ELSE IF ~canRemoveMember(parts, operatorId, ref)
    THEN Err("Forbidden", "You do not have permission to remove this participant")
  ELSE IF ref = operatorId
    THEN Err("Conflict", "Cannot remove yourself. Use leave instead.")
  ELSE IF parts[ref] = null THEN Err("NotFound", "Participant not found")
  ELSE IF parts[ref] = "owner" THEN Err("Forbidden", "Cannot remove plan owner")
  ELSE Ok

RemoveParticipant(ref, operatorId) ==
  /\ LET res == removeParticipantOutcome(participants, ref, operatorId) IN
       /\ last' = Outcome("removeParticipant", res)
       /\ participants' = IF res.kind = "ok"
                            THEN [participants EXCEPT ![ref] = null]
                            ELSE participants
  /\ UNCHANGED <<planExists, is_public, creator, roleVars, concVars, raceVars, tripVars,
               replaceVars, permVars, laterVars>>

updateParticipantRoleOutcome_noSelfCheck(parts, operatorId, ref, role) ==
  IF ~canChangeRole(parts, operatorId)
    THEN Err("Forbidden", "Only owner can change participant roles")
  ELSE IF findUserByKeyOrPhone(ref).kind # "ok" THEN findUserByKeyOrPhone(ref)
  ELSE IF parts[ref] = null THEN Err("NotFound", "Participant not found")
  ELSE IF parts[ref] = "owner"
    THEN Err("Forbidden", "Cannot change owner role. Use transfer ownership instead.")
  ELSE IF role = "owner"
    THEN Err("Forbidden", "Cannot assign owner role. Use transfer ownership instead.")
  ELSE Ok

updateParticipantRoleOutcome_noOwnerCheck(parts, operatorId, ref, role) ==
  IF ~canChangeRole(parts, operatorId)
    THEN Err("Forbidden", "Only owner can change participant roles")
  ELSE IF findUserByKeyOrPhone(ref).kind # "ok" THEN findUserByKeyOrPhone(ref)
  ELSE IF parts[ref] = null THEN Err("NotFound", "Participant not found")
  ELSE IF ref = operatorId THEN Err("Conflict", "Cannot change your own role")
  ELSE IF role = "owner"
    THEN Err("Forbidden", "Cannot assign owner role. Use transfer ownership instead.")
  ELSE Ok

updateParticipantRoleOutcome(parts, operatorId, ref, role) ==
  IF ~canChangeRole(parts, operatorId)
    THEN Err("Forbidden", "Only owner can change participant roles")
  ELSE IF findUserByKeyOrPhone(ref).kind # "ok" THEN findUserByKeyOrPhone(ref)
  ELSE IF parts[ref] = null THEN Err("NotFound", "Participant not found")
  ELSE IF ref = operatorId THEN Err("Conflict", "Cannot change your own role")
  ELSE IF parts[ref] = "owner"
    THEN Err("Forbidden", "Cannot change owner role. Use transfer ownership instead.")
  ELSE IF role = "owner"
    THEN Err("Forbidden", "Cannot assign owner role. Use transfer ownership instead.")
  ELSE Ok

UpdateParticipantRole(operatorId, ref, role) ==
  /\ LET res == updateParticipantRoleOutcome(participants, operatorId, ref, role) IN
       /\ last' = Outcome("updateParticipantRole", res)
       /\ participants' = IF res.kind = "ok"
                            THEN [participants EXCEPT ![ref] = role]
                            ELSE participants
  /\ UNCHANGED <<planExists, is_public, creator, roleVars, concVars, raceVars, tripVars,
               replaceVars, permVars, laterVars>>

transferOwnershipOutcome(parts, currentOwnerId, newOwnerId) ==
  IF parts[currentOwnerId] # "owner"
    THEN Err("Forbidden", "Only owner can transfer ownership")
  ELSE IF parts[newOwnerId] = null
    THEN Err("NotFound", "New owner must be a participant of the plan")
  ELSE Ok

\* the three updates of the $transaction array, applied in order
transferWrites(parts, currentOwnerId, newOwnerId) ==
  [[parts EXCEPT ![currentOwnerId] = "admin"] EXCEPT ![newOwnerId] = "owner"]

TransferOwnership(currentOwnerId, newOwnerId) ==
  /\ LET res == transferOwnershipOutcome(participants, currentOwnerId, newOwnerId) IN
       /\ last' = Outcome("transferOwnership", res)
       /\ IF res.kind = "ok"
            THEN /\ participants' = transferWrites(participants, currentOwnerId, newOwnerId)
                 /\ creator' = newOwnerId
            ELSE UNCHANGED <<participants, creator>>
  /\ UNCHANGED <<planExists, is_public, roleVars, concVars, raceVars, tripVars,
               replaceVars, permVars, laterVars>>

\* ------------------------------------------- plan requests one at a time
Init ==
  /\ planExists = FALSE
  /\ is_public = FALSE
  /\ creator = 0
  /\ participants = NoParticipants
  /\ last = [op |-> "none", kind |-> "ok", msg |-> ""]
  /\ userRoles = {}
  /\ lastR = [op |-> "none", kind |-> "ok", missing |-> <<>>]
  /\ reqs = <<>>
  /\ rreqs = <<>>
  /\ Unused
  /\ rolesAtStart = {}

Next ==
  \/ \E u \in Users, pub \in BOOLEAN, list \in InvitedLists : Create(u, pub, list)
  \/ \E u \in Users, pub \in BOOLEAN : Update(u, pub)
  \/ \E u \in Users : Remove(u)
  \/ \E u \in 0..NumUsers : FindOne(u)
  \/ \E u \in 0..NumUsers : FindPlanTasks(u)
  \/ \E u \in Users : JoinPlan(u)
  \/ \E u \in Users, ref \in UserRefs, role \in RoleOrNull : InviteParticipant(u, ref, role)
  \/ \E u \in Users : LeavePlan(u)
  \/ \E u \in Users, ref \in UserRefs : RemoveParticipant(ref, u)
  \/ \E u \in Users, ref \in UserRefs, role \in ParticipantRole :
       UpdateParticipantRole(u, ref, role)
  \/ \E u \in Users, n \in Users : TransferOwnership(u, n)

Spec == Init /\ [][Next]_vars

\* ------------------------------------------------- UserService role rows
\* codes of the rows of the roles table (prisma seed), and a code without row
RoleCodes == {"admin", "user", "guest"}
AllCodes == RoleCodes \cup {"nonexistent"}
CodeLists == UNION {[1..n -> AllCodes] : n \in 0..MaxCodes}

Range(f) == {f[i] : i \in DOMAIN f}

\* role.findMany({where: {code: {in: roleCodes}}}): the matching rows, each once
findRoles(roleCodes) == Range(roleCodes) \cap RoleCodes

\* roleCodes.filter((c) => !foundCodes.includes(c))
notFoundCodes(roleCodes) == SelectSeq(roleCodes, LAMBDA c : c \notin findRoles(roleCodes))

ROk == [kind |-> "ok", missing |-> <<>>]
RErr(k, codes) == [kind |-> k, missing |-> codes]
ROutcome(op, res) == [op |-> op, kind |-> res.kind, missing |-> res.missing]

assignRolesOutcome(held, roleCodes) ==
  IF Cardinality(findRoles(roleCodes)) # Len(roleCodes)
    THEN RErr("NotFound", notFoundCodes(roleCodes))
  ELSE IF findRoles(roleCodes) \ held = {} THEN RErr("Conflict", <<>>)
  ELSE ROk

\* UserService._assignRolesByUserId
AssignRoles(roleCodes) ==
  /\ LET res == assignRolesOutcome(userRoles, roleCodes) IN
       /\ lastR' = ROutcome("assignRoles", res)
       /\ userRoles' = IF res.kind = "ok"
                         THEN userRoles \cup (findRoles(roleCodes) \ userRoles)
                         ELSE userRoles
  /\ UNCHANGED <<planVars, concVars, raceVars, tripVars,
               replaceVars, permVars, laterVars>>

\* the last-role test of removeRole on the counted rows
isLastRole_zero(userRolesCount) == userRolesCount = 0

\* the last-role test refusing every removal
isLastRole_any(userRolesCount) == userRolesCount >= 1

\* the last-role test refusing the removal of one of two roles
isLastRole_atMostTwo(userRolesCount) == userRolesCount <= 2

isLastRole(userRolesCount) == userRolesCount = 1

removeRoleOutcome(held, roleCode) ==
  IF roleCode \notin RoleCodes THEN RErr("NotFound", <<roleCode>>)
  ELSE IF roleCode \notin held THEN RErr("NotFound", <<>>)
  ELSE IF isLastRole(Cardinality(held)) THEN RErr("Conflict", <<>>)
  ELSE ROk

\* UserService._removeRoleByUserId
RemoveRole(roleCode) ==
  /\ LET res == removeRoleOutcome(userRoles, roleCode) IN
       /\ lastR' = ROutcome("removeRole", res)
       /\ userRoles' = IF res.kind = "ok" THEN userRoles \ {roleCode} ELSE userRoles
  /\ UNCHANGED <<planVars, concVars, raceVars, tripVars,
               replaceVars, permVars, laterVars>>

\* replaceRoles without the empty-list check
updateUserRolesOutcome_noEmptyCheck(roleCodes) ==
  IF Cardinality(findRoles(roleCodes)) # Len(roleCodes)
    THEN RErr("NotFound", notFoundCodes(roleCodes))
  ELSE ROk

updateUserRolesOutcome(roleCodes) ==
  IF Len(roleCodes) = 0 THEN RErr("Conflict", <<>>)
  ELSE IF Cardinality(findRoles(roleCodes)) # Len(roleCodes)
    THEN RErr("NotFound", notFoundCodes(roleCodes))
  ELSE ROk

\* UserService._updateUserRolesByUserId: deleteMany then createMany in one
\* interactive transaction
UpdateUserRoles(roleCodes) ==
  /\ LET res == updateUserRolesOutcome(roleCodes) IN
       /\ lastR' = ROutcome("updateUserRoles", res)
       /\ userRoles' = IF res.kind = "ok"
                         THEN (userRoles \ userRoles) \cup findRoles(roleCodes)
                         ELSE userRoles
  /\ UNCHANGED <<planVars, concVars, raceVars, tripVars,
               replaceVars, permVars, laterVars>>

\* role requests one at a time, for a user with any set of roles (a user row
\* is created without user_roles rows)
InitRoles ==
  /\ planExists = FALSE
  /\ is_public = FALSE
  /\ creator = 0
  /\ participants = NoParticipants
  /\ last = [op |-> "none", kind |-> "ok", msg |-> ""]
  /\ userRoles \in SUBSET RoleCodes
  /\ rolesAtStart = userRoles
  /\ lastR = [op |-> "none", kind |-> "ok", missing |-> <<>>]
  /\ reqs = <<>>
  /\ rreqs = <<>>
  /\ Unused

NextRoles ==
  \/ \E roleCodes \in CodeLists : AssignRoles(roleCodes)
  \/ \E roleCode \in AllCodes : RemoveRole(roleCode)
  \/ \E roleCodes \in CodeLists : UpdateUserRoles(roleCodes)

SpecRoles == InitRoles /\ [][NextRoles]_vars

\* ------------------------------ assignRoles followed by removeRole
\* One assignRoles request and then one removeRole request for the same user,
\* with the arguments and outcomes of both kept in trip.
IdleTrip == [phase |-> "start", codes |-> <<>>, assign |-> "none",
             code |-> "none", remove |-> "none"]

TripUnchanged == UNCHANGED <<planVars, concVars, raceVars, replaceVars, permVars, laterVars>>

\* UserService._assignRolesByUserId, first request of the pair
RT_Assign(roleCodes) ==
  /\ trip.phase = "start"
  /\ LET res == assignRolesOutcome(userRoles, roleCodes) IN
       /\ lastR' = ROutcome("assignRoles", res)
       /\ userRoles' = IF res.kind = "ok"
                         THEN userRoles \cup (findRoles(roleCodes) \ userRoles)
                         ELSE userRoles
       /\ trip' = [trip EXCEPT !.phase = "assigned", !.codes = roleCodes,
                               !.assign = res.kind]
  /\ TripUnchanged

\* UserService._removeRoleByUserId, second request of the pair
RT_Remove(roleCode) ==
  /\ trip.phase = "assigned"
  /\ LET res == removeRoleOutcome(userRoles, roleCode) IN
       /\ lastR' = ROutcome("removeRole", res)
       /\ userRoles' = IF res.kind = "ok" THEN userRoles \ {roleCode} ELSE userRoles
       /\ trip' = [trip EXCEPT !.phase = "removed", !.code = roleCode,
                               !.remove = res.kind]
  /\ TripUnchanged

InitRoundTrip ==
  /\ planExists = FALSE
  /\ is_public = FALSE
  /\ creator = 0
  /\ participants = NoParticipants
  /\ last = [op |-> "none", kind |-> "ok", msg |-> ""]
  /\ userRoles \in SUBSET RoleCodes
  /\ rolesAtStart = userRoles
  /\ lastR = [op |-> "none", kind |-> "ok", missing |-> <<>>]
  /\ reqs = <<>>
  /\ rreqs = <<>>
  /\ trip = IdleTrip
  /\ ureqs = <<>>
  /\ rolePerms = <<>>
  /\ lastP = <<>>
  /\ LaterUnused

NextRoundTrip ==
  \/ \E roleCodes \in CodeLists : RT_Assign(roleCodes)
  \/ \E roleCode \in AllCodes : RT_Remove(roleCode)

SpecRoundTrip == InitRoundTrip /\ [][NextRoundTrip]_vars

\* ----------------------------------- plan requests running concurrently
\* Two requests on the same plan; every step is one store call of the
\* handler (a findUnique, an update, a delete or the $transaction array).
\* The lookup of the target user (users table, never written here) is folded
\* into the store call that follows it.
ReqIds == {"r1", "r2"}

IdleReq == [op |-> "none", a |-> 0, b |-> 0, role |-> null, pc |-> "idle",
            r1 |-> null, res |-> "none"]

Running(op, a, b, role, pc, r1) ==
  [op |-> op, a |-> a, b |-> b, role |-> role, pc |-> pc, r1 |-> r1, res |-> "none"]

Done(op, res) ==
  [op |-> op, a |-> 0, b |-> 0, role |-> null, pc |-> "done", r1 |-> null, res |-> res]

At(i, op, pc) == reqs[i].op = op /\ reqs[i].pc = pc

ConcUnchanged == UNCHANGED <<planExists, is_public, last, roleVars, raceVars, tripVars,
               replaceVars, permVars, laterVars>>

\* transferOwnership: findUnique of the caller's row
T_ReadCurrent(i, a, b) ==
  /\ reqs[i].pc = "idle"
  /\ reqs' = [reqs EXCEPT ![i] =
       IF participants[a] # "owner" THEN Done("transferOwnership", "Forbidden")
       ELSE Running("transferOwnership", a, b, null, "readNew", null)]
  /\ UNCHANGED <<participants, creator>>
  /\ ConcUnchanged

\* transferOwnership: findUnique of the new owner's row
T_ReadNew(i) ==
  /\ At(i, "transferOwnership", "readNew")
  /\ reqs' = [reqs EXCEPT ![i] =
       IF participants[reqs[i].b] = null THEN Done("transferOwnership", "NotFound")
       ELSE [reqs[i] EXCEPT !.pc = "tx"]]
  /\ UNCHANGED <<participants, creator>>
  /\ ConcUnchanged

\* transferOwnership: the $transaction array; an update of a row that no
\* longer exists throws and the whole array is rolled back
T_Tx(i) ==
  /\ At(i, "transferOwnership", "tx")
  /\ IF participants[reqs[i].a] = null \/ participants[reqs[i].b] = null
       THEN /\ reqs' = [reqs EXCEPT ![i] = Done("transferOwnership", "RecordNotFound")]
            /\ UNCHANGED <<participants, creator>>
       ELSE /\ participants' = transferWrites(participants, reqs[i].a, reqs[i].b)
            /\ creator' = reqs[i].b
            /\ reqs' = [reqs EXCEPT ![i] = Done("transferOwnership", "ok")]
  /\ ConcUnchanged

\* updateParticipantRole: canChangeRole (one findUnique of the operator's row)
U_CanChange(i, a, b, role) ==
  /\ reqs[i].pc = "idle"
  /\ reqs' = [reqs EXCEPT ![i] =
       IF ~hasRoleLevel(participants[a], "owner")
         THEN Done("updateParticipantRole", "Forbidden")
         ELSE Running("updateParticipantRole", a, b, role, "readTarget", null)]
  /\ UNCHANGED <<participants, creator>>
  /\ ConcUnchanged

\* updateParticipantRole: findUnique of the target's row and the checks on it
U_ReadTarget(i) ==
  /\ At(i, "updateParticipantRole", "readTarget")
  /\ reqs' = [reqs EXCEPT ![i] =
       IF participants[reqs[i].b] = null THEN Done("updateParticipantRole", "NotFound")
       ELSE IF reqs[i].b = reqs[i].a THEN Done("updateParticipantRole", "Conflict")
       ELSE IF participants[reqs[i].b] = "owner"
         THEN Done("updateParticipantRole", "Forbidden")
       ELSE IF reqs[i].role = "owner" THEN Done("updateParticipantRole", "Forbidden")
       ELSE [reqs[i] EXCEPT !.pc = "write"]]
  /\ UNCHANGED <<participants, creator>>
  /\ ConcUnchanged

\* updateParticipantRole: planParticipant.update
U_Write(i) ==
  /\ At(i, "updateParticipantRole", "write")
  /\ IF participants[reqs[i].b] = null
       THEN /\ reqs' = [reqs EXCEPT ![i] = Done("updateParticipantRole", "RecordNotFound")]
            /\ UNCHANGED participants
       ELSE /\ participants' = [participants EXCEPT ![reqs[i].b] = reqs[i].role]
            /\ reqs' = [reqs EXCEPT ![i] = Done("updateParticipantRole", "ok")]
  /\ UNCHANGED creator
  /\ ConcUnchanged

\* leavePlan: findUnique of the caller's row
L_Read(i, a) ==
  /\ reqs[i].pc = "idle"
  /\ reqs' = [reqs EXCEPT ![i] =
       IF participants[a] = null THEN Done("leavePlan", "NotFound")
       ELSE IF participants[a] = "owner" THEN Done("leavePlan", "Conflict")
       ELSE Running("leavePlan", a, a, null, "delete", null)]
  /\ UNCHANGED <<participants, creator>>
  /\ ConcUnchanged

\* leavePlan: planParticipant.delete
L_Delete(i) ==
  /\ At(i, "leavePlan", "delete")
  /\ IF participants[reqs[i].a] = null
       THEN /\ reqs' = [reqs EXCEPT ![i] = Done("leavePlan", "RecordNotFound")]
            /\ UNCHANGED participants
       ELSE /\ participants' = [participants EXCEPT ![reqs[i].a] = null]
            /\ reqs' = [reqs EXCEPT ![i] = Done("leavePlan", "ok")]
  /\ UNCHANGED creator
  /\ ConcUnchanged

\* removeParticipant: canRemoveMember, first getUserRole (operator)
R_ReadOperator(i, a, b) ==
  /\ reqs[i].pc = "idle"
  /\ reqs' = [reqs EXCEPT ![i] =
       Running("removeParticipant", a, b, null, "readTarget", participants[a])]
  /\ UNCHANGED <<participants, creator>>
  /\ ConcUnchanged

\* removeParticipant: canRemoveMember, second getUserRole (target), the
\* decision and the self check
R_ReadTarget(i) ==
  /\ At(i, "removeParticipant", "readTarget")
  /\ reqs' = [reqs EXCEPT ![i] =
       IF ~canRemoveDecision(reqs[i].r1, participants[reqs[i].b])
         THEN Done("removeParticipant", "Forbidden")
       ELSE IF reqs[i].b = reqs[i].a THEN Done("removeParticipant", "Conflict")
       ELSE [reqs[i] EXCEPT !.pc = "readRow", !.r1 = null]]
  /\ UNCHANGED <<participants, creator>>
  /\ ConcUnchanged

\* removeParticipant: findUnique of the target's row and the checks on it
R_ReadRow(i) ==
  /\ At(i, "removeParticipant", "readRow")
  /\ reqs' = [reqs EXCEPT ![i] =
       IF participants[reqs[i].b] = null THEN Done("removeParticipant", "NotFound")
       ELSE IF participants[reqs[i].b] = "owner" THEN Done("removeParticipant", "Forbidden")
       ELSE [reqs[i] EXCEPT !.pc = "delete"]]
  /\ UNCHANGED <<participants, creator>>
  /\ ConcUnchanged

\* removeParticipant: planParticipant.delete
R_Delete(i) ==
  /\ At(i, "removeParticipant", "delete")
  /\ IF participants[reqs[i].b] = null
       THEN /\ reqs' = [reqs EXCEPT ![i] = Done("removeParticipant", "RecordNotFound")]
            /\ UNCHANGED participants
       ELSE /\ participants' = [participants EXCEPT ![reqs[i].b] = null]
            /\ reqs' = [reqs EXCEPT ![i] = Done("removeParticipant", "ok")]
  /\ UNCHANGED creator
  /\ ConcUnchanged

\* a plan as PlanService.create leaves it: the creator is the owner, every
\* other user is absent or was invited with a lower role
InitConc ==
  /\ planExists = TRUE
  /\ is_public = FALSE
  /\ creator = 1
  /\ participants \in {f \in [Users -> RoleOrNull] :
                         f[1] = "owner" /\ \A u \in Users \ {1} : f[u] # "owner"}
  /\ last = [op |-> "none", kind |-> "ok", msg |-> ""]
  /\ userRoles = {}
  /\ rolesAtStart = {}
  /\ lastR = [op |-> "none", kind |-> "ok", missing |-> <<>>]
  /\ reqs = [i \in ReqIds |-> IdleReq]
  /\ rreqs = <<>>
  /\ Unused

NextConc ==
  \/ \E i \in ReqIds, a \in Users, b \in Users : T_ReadCurrent(i, a, b)
  \/ \E i \in ReqIds : T_ReadNew(i)
  \/ \E i \in ReqIds : T_Tx(i)
  \/ \E i \in ReqIds, a \in Users, b \in Users, role \in ParticipantRole :
       U_CanChange(i, a, b, role)
  \/ \E i \in ReqIds : U_ReadTarget(i)
  \/ \E i \in ReqIds : U_Write(i)
  \/ \E i \in ReqIds, a \in Users : L_Read(i, a)
  \/ \E i \in ReqIds : L_Delete(i)
  \/ \E i \in ReqIds, a \in Users, b \in Users : R_ReadOperator(i, a, b)
  \/ \E i \in ReqIds : R_ReadTarget(i)
  \/ \E i \in ReqIds : R_ReadRow(i)
  \/ \E i \in ReqIds : R_Delete(i)

SpecConc == InitConc /\ [][NextConc]_vars

\* -------------------------------- removeRole requests running concurrently
\* Two removeRole requests for the same user; the lookup of the role row
\* (roles table, never written here) is folded into the first step.
IdleRReq == [code |-> "none", pc |-> "idle", res |-> "none"]

RaceUnchanged ==
  UNCHANGED <<planVars, lastR, concVars, rolesAtStart, tripVars, replaceVars, permVars, laterVars>>

\* role.findUnique and userRole.findUnique
RR_ReadUserRole(i, roleCode) ==
  /\ rreqs[i].pc = "idle"
  /\ rreqs' = [rreqs EXCEPT ![i] =
       IF roleCode \notin RoleCodes \/ roleCode \notin userRoles
         THEN [code |-> roleCode, pc |-> "done", res |-> "NotFound"]
         ELSE [code |-> roleCode, pc |-> "count", res |-> "none"]]
  /\ UNCHANGED userRoles
  /\ RaceUnchanged

\* userRole.count and the last-role test
RR_Count(i) ==
  /\ rreqs[i].pc = "count"
  /\ rreqs' = [rreqs EXCEPT ![i] =
       IF isLastRole(Cardinality(userRoles))
         THEN [rreqs[i] EXCEPT !.pc = "done", !.res = "Conflict"]
         ELSE [rreqs[i] EXCEPT !.pc = "delete"]]
  /\ UNCHANGED userRoles
  /\ RaceUnchanged

\* userRole.delete of the row read in the first step
RR_Delete(i) ==
  /\ rreqs[i].pc = "delete"
  /\ IF rreqs[i].code \notin userRoles
       THEN /\ rreqs' = [rreqs EXCEPT ![i] = [@ EXCEPT !.pc = "done", !.res = "RecordNotFound"]]
            /\ UNCHANGED userRoles
       ELSE /\ userRoles' = userRoles \ {rreqs[i].code}
            /\ rreqs' = [rreqs EXCEPT ![i] = [@ EXCEPT !.pc = "done", !.res = "ok"]]
  /\ RaceUnchanged

InitRemoveRace ==
  /\ planExists = FALSE
  /\ is_public = FALSE
  /\ creator = 0
  /\ participants = NoParticipants
  /\ last = [op |-> "none", kind |-> "ok", msg |-> ""]
  /\ userRoles \in SUBSET RoleCodes
  /\ rolesAtStart = userRoles
  /\ lastR = [op |-> "none", kind |-> "ok", missing |-> <<>>]
  /\ reqs = <<>>
  /\ rreqs = [i \in ReqIds |-> IdleRReq]
  /\ Unused

NextRemoveRace ==
  \/ \E i \in ReqIds, roleCode \in AllCodes : RR_ReadUserRole(i, roleCode)
  \/ \E i \in ReqIds : RR_Count(i)
  \/ \E i \in ReqIds : RR_Delete(i)

SpecRemoveRace == InitRemoveRace /\ [][NextRemoveRace]_vars

\* ----------------------------- replaceRoles requests running concurrently
\* Two _updateUserRolesByUserId requests for the same user; every step is one
\* store call. The statements of the interactive transaction are separate
\* steps; the store (MySQL, InnoDB) keeps the user's user_roles rows locked
\* for the transaction that wrote them until it commits, so the deleteMany of
\* the other transaction waits.
IdleUReq == [codes |-> <<>>, pc |-> "idle", res |-> "none", deleted |-> {},
             overlapped |-> FALSE]

ReplaceUnchanged == UNCHANGED <<planVars, lastR, concVars, raceVars, tripVars, permVars, laterVars>>

\* request i is inside its transaction and has written the user's rows
InTx(i) == ureqs[i].pc \in {"createMany", "findMany"}

\* the empty-list check, role.findMany and the length check
UR_Resolve(i, roleCodes) ==
  /\ ureqs[i].pc = "idle"
  /\ LET res == updateUserRolesOutcome(roleCodes) IN
       ureqs' = [ureqs EXCEPT ![i] =
         IF res.kind # "ok"
           THEN [IdleUReq EXCEPT !.pc = "done", !.res = res.kind]
           ELSE [IdleUReq EXCEPT !.codes = roleCodes, !.pc = "deleteMany",
                   !.overlapped = \E j \in ReqIds \ {i} : InTx(j)]]
  /\ UNCHANGED userRoles
  /\ ReplaceUnchanged

\* tx.userRole.deleteMany without waiting for the rows' lock
UR_DeleteMany_noLock(i) ==
  /\ ureqs[i].pc = "deleteMany"
  /\ ureqs' = [ureqs EXCEPT ![i] = [@ EXCEPT !.pc = "createMany", !.deleted = userRoles]]
  /\ userRoles' = userRoles \ userRoles
  /\ ReplaceUnchanged

\* $transaction begins and tx.userRole.deleteMany({user_id}) runs, once no
\* other transaction holds the user's rows
UR_DeleteMany(i) ==
  /\ ureqs[i].pc = "deleteMany"
  /\ ~(\E j \in ReqIds \ {i} : InTx(j))
  /\ ureqs' = [ureqs EXCEPT ![i] = [@ EXCEPT !.pc = "createMany", !.deleted = userRoles]]
  /\ userRoles' = userRoles \ userRoles
  /\ ReplaceUnchanged

\* tx.userRole.createMany of one row per resolved role; a row that exists
\* already violates the unique index and the transaction is rolled back
UR_CreateMany(i) ==
  /\ ureqs[i].pc = "createMany"
  /\ IF findRoles(ureqs[i].codes) \cap userRoles # {}
       THEN /\ userRoles' = userRoles \cup ureqs[i].deleted
            /\ ureqs' = [ureqs EXCEPT ![i] =
                 [IdleUReq EXCEPT !.pc = "done", !.res = "UniqueViolation"]]
       ELSE /\ userRoles' = userRoles \cup findRoles(ureqs[i].codes)
            /\ ureqs' = [ureqs EXCEPT ![i] = [@ EXCEPT !.pc = "findMany", !.deleted = {}]]
  /\ ReplaceUnchanged

\* tx.userRole.findMany, the commit and the return
UR_FindMany(i) ==
  /\ ureqs[i].pc = "findMany"
  /\ ureqs' = [ureqs EXCEPT ![i] = [@ EXCEPT !.pc = "done", !.res = "ok"]]
  /\ UNCHANGED userRoles
  /\ ReplaceUnchanged

InitReplaceRace ==
  /\ planExists = FALSE
  /\ is_public = FALSE
  /\ creator = 0
  /\ participants = NoParticipants
  /\ last = [op |-> "none", kind |-> "ok", msg |-> ""]
  /\ userRoles \in SUBSET RoleCodes
  /\ rolesAtStart = userRoles
  /\ lastR = [op |-> "none", kind |-> "ok", missing |-> <<>>]
  /\ reqs = <<>>
  /\ rreqs = <<>>
  /\ trip = <<>>
  /\ ureqs = [i \in ReqIds |-> IdleUReq]
  /\ rolePerms = <<>>
  /\ lastP = <<>>
  /\ LaterUnused

NextReplaceRace ==
  \/ \E i \in ReqIds, roleCodes \in CodeLists : UR_Resolve(i, roleCodes)
  \/ \E i \in ReqIds : UR_DeleteMany(i)
  \/ \E i \in ReqIds : UR_CreateMany(i)
  \/ \E i \in ReqIds : UR_FindMany(i)

SpecReplaceRace == InitReplaceRace /\ [][NextReplaceRace]_vars

\* ------------------------------------------- role permissions (RBAC rows)
\* codes of two rows of the permissions table (prisma seed), and a code
\* without row
PermCodes == {"plan:read", "role:manage"}
AllPermCodes == PermCodes \cup {"nonexistent"}
PermLists == UNION {[1..n -> AllPermCodes] : n \in 0..MaxCodes}

\* role_permissions as seeded: admin has every permission, user and guest
\* have plan:read
SeedPerms == [r \in RoleCodes |-> IF r = "admin" THEN PermCodes ELSE {"plan:read"}]

\* the orders in which the store may return the rows of a set
Orders(S) == {f \in [1..Cardinality(S) -> S] : Range(f) = S}

IdleP == [op |-> "none", role |-> "none", codes |-> <<>>, kind |-> "ok",
          result |-> <<>>, has |-> FALSE, repeated |-> FALSE]

PermUnchanged ==
  UNCHANGED <<planVars, roleVars, concVars, raceVars, tripVars, replaceVars, laterVars>>

\* permission.findMany({where: {code: {in: permissionCodes}}}), skipped for
\* an empty list
findPermissions(permissionCodes) == Range(permissionCodes) \cap PermCodes

\* role.findUnique and the not-found check
updateRolePermissionsOutcome(roleId) ==
  IF roleId \notin RoleCodes THEN "NotFound" ELSE "ok"

\* the transaction of updateRolePermissions without its deleteMany
updatedPermissions_noDelete(held, permissionCodes) ==
  held \cup findPermissions(permissionCodes)

\* the transaction of updateRolePermissions: rolePermission.deleteMany of the
\* role's rows, then createMany of one row per permission found
updatedPermissions(held, permissionCodes) ==
  (held \ held) \cup findPermissions(permissionCodes)

\* RoleService.updateRolePermissions
UpdateRolePermissions(roleId, permissionCodes) ==
  /\ LET kind == updateRolePermissionsOutcome(roleId) IN
       /\ lastP' = [IdleP EXCEPT
            !.op = "updateRolePermissions", !.kind = kind,
            !.role = IF kind = "ok" THEN roleId ELSE "none",
            !.codes = IF kind = "ok" THEN permissionCodes ELSE <<>>,
            !.repeated = /\ kind = "ok"
                         /\ lastP.op = "updateRolePermissions"
                         /\ lastP.role = roleId
                         /\ lastP.codes = permissionCodes]
       /\ rolePerms' = IF kind = "ok"
            THEN [rolePerms EXCEPT ![roleId] = updatedPermissions(@, permissionCodes)]
            ELSE rolePerms
  /\ PermUnchanged

\* userRole.findMany with role.role_permissions.permission included: the
\* permission codes of the rows, role by role, in the store's order
RECURSIVE permissionRows(_, _, _)
permissionRows(perms, roleOrder, permOrder) ==
  IF roleOrder = <<>> THEN <<>>
  ELSE SelectSeq(permOrder, LAMBDA c : c \in perms[Head(roleOrder)])
         \o permissionRows(perms, Tail(roleOrder), permOrder)

\* new Set<string>(), permissions.add(code) for every row, Array.from
RECURSIVE collect(_)
collect(rows) ==
  IF rows = <<>> THEN <<>>
  ELSE LET front == collect(SubSeq(rows, 1, Len(rows) - 1))
           code == rows[Len(rows)]
       IN IF code \in Range(front) THEN front ELSE Append(front, code)

\* getUserPermissions without the Set: the code of every row is returned
getUserPermissions_noSet(held, perms, roleOrder, permOrder) ==
  permissionRows(perms, roleOrder, permOrder)

getUserPermissions(held, perms, roleOrder, permOrder) ==
  collect(permissionRows(perms, roleOrder, permOrder))

\* UserContextService.getUserPermissions
GetUserPermissions ==
  /\ \E roleOrder \in Orders(userRoles), permOrder \in Orders(PermCodes) :
       lastP' = [IdleP EXCEPT !.op = "getUserPermissions",
                   !.result = getUserPermissions(userRoles, rolePerms, roleOrder, permOrder)]
  /\ UNCHANGED rolePerms
  /\ PermUnchanged

\* UserContextService.hasPermission: permissions.includes(permissionCode)
HasPermission(permissionCode) ==
  /\ \E roleOrder \in Orders(userRoles), permOrder \in Orders(PermCodes) :
       lastP' = [IdleP EXCEPT !.op = "hasPermission",
                   !.has = permissionCode \in
                     Range(getUserPermissions(userRoles, rolePerms, roleOrder, permOrder))]
  /\ UNCHANGED rolePerms
  /\ PermUnchanged

\* permission queries for a user with any set of roles, over any contents of
\* role_permissions that updateRolePermissions can leave
InitPerms ==
  /\ planExists = FALSE
  /\ is_public = FALSE
  /\ creator = 0
  /\ participants = NoParticipants
  /\ last = [op |-> "none", kind |-> "ok", msg |-> ""]
  /\ userRoles \in SUBSET RoleCodes
  /\ rolesAtStart = userRoles
  /\ lastR = [op |-> "none", kind |-> "ok", missing |-> <<>>]
  /\ reqs = <<>>
  /\ rreqs = <<>>
  /\ trip = <<>>
  /\ ureqs = <<>>
  /\ rolePerms \in [RoleCodes -> SUBSET PermCodes]
  /\ lastP = IdleP
  /\ LaterUnused

NextPerms ==
  \/ GetUserPermissions
  \/ \E permissionCode \in AllPermCodes : HasPermission(permissionCode)

SpecPerms == InitPerms /\ [][NextPerms]_vars

\* updateRolePermissions requests one at a time, from the seeded rows
InitRolePerms ==
  /\ planExists = FALSE
  /\ is_public = FALSE
  /\ creator = 0
  /\ participants = NoParticipants
  /\ last = [op |-> "none", kind |-> "ok", msg |-> ""]
  /\ userRoles = {}
  /\ rolesAtStart = {}
  /\ lastR = [op |-> "none", kind |-> "ok", missing |-> <<>>]
  /\ reqs = <<>>
  /\ rreqs = <<>>
  /\ trip = <<>>
  /\ ureqs = <<>>
  /\ rolePerms = SeedPerms
  /\ lastP = IdleP
  /\ LaterUnused

NextRolePerms ==
  \E roleId \in AllCodes, permissionCodes \in PermLists :
    UpdateRolePermissions(roleId, permissionCodes)

SpecRolePerms == InitRolePerms /\ [][NextRolePerms]_vars

\* ------------------------------------------------ DistributedLockService
\* Two callers and one key K. The value a caller stores is unique to the
\* call (time, random number, pid); it is modelled by the caller's id.
Retries == 3

IdleLReq == [op |-> "none", pc |-> "idle", attempts |-> 0, live |-> FALSE,
             res |-> "none"]

LockUnchanged ==
  UNCHANGED <<planVars, roleVars, concVars, raceVars, tripVars, replaceVars,
              permVars, adminVars, acctVars, sumVars>>

\* RedisService.set(key, value, ttl, mode): SET EX NX|XX when a mode is
\* given, SETEX otherwise; the reply is OK, or null when NX/XX refuses
redisSet(store, value, mode) ==
  IF mode = "NX" /\ store # "none" THEN [store |-> store, reply |-> "null"]
  ELSE IF mode = "XX" /\ store = "none" THEN [store |-> store, reply |-> "null"]
  ELSE [store |-> value, reply |-> "OK"]

\* one redisService.set call of acquireLock (also through executeWithLock)
\* or of tryLock, and what the caller does with the reply; the set call is
\* given no mode argument
L_Set(i, op) ==
  /\ \/ lreqs[i].pc = "idle"
     \/ lreqs[i].pc = "retry" /\ lreqs[i].op = op
  /\ LET r == redisSet(lockStore, i, "undefined")
         attempts == IF lreqs[i].pc = "retry" THEN lreqs[i].attempts + 1 ELSE 1
     IN /\ lockStore' = r.store
        /\ lreqs' = [lreqs EXCEPT ![i] =
             IF r.reply = "OK"
               THEN [IdleLReq EXCEPT !.op = op, !.pc = "holding", !.live = TRUE]
             ELSE IF op = "tryLock"
               THEN [IdleLReq EXCEPT !.res = "null"]
             ELSE IF attempts < Retries
               THEN [IdleLReq EXCEPT !.op = op, !.pc = "retry", !.attempts = attempts]
             ELSE [IdleLReq EXCEPT !.res = "Failed to acquire lock"]]
  /\ LockUnchanged

\* the key's TTL runs out and Redis removes it
L_Expire ==
  /\ lockStore # "none"
  /\ lockStore' = "none"
  /\ lreqs' = [i \in ReqIds |->
       IF lockStore = i /\ lreqs[i].pc = "holding"
         THEN [lreqs[i] EXCEPT !.live = FALSE] ELSE lreqs[i]]
  /\ LockUnchanged

\* releaseLock(K, lockValue), called by the holder or by the finally step of
\* executeWithLock: redisService.del of the key
L_Release(i) ==
  /\ lreqs[i].pc = "holding"
  /\ lockStore' = "none"
  /\ lreqs' = [lreqs EXCEPT ![i] =
       [IdleLReq EXCEPT !.res = IF lockStore # "none" THEN "released" ELSE "not found"]]
  /\ LockUnchanged

InitLock ==
  /\ planExists = FALSE
  /\ is_public = FALSE
  /\ creator = 0
  /\ participants = NoParticipants
  /\ last = [op |-> "none", kind |-> "ok", msg |-> ""]
  /\ userRoles = {}
  /\ rolesAtStart = {}
  /\ lastR = [op |-> "none", kind |-> "ok", missing |-> <<>>]
  /\ reqs = <<>>
  /\ rreqs = <<>>
  /\ trip = <<>>
  /\ ureqs = <<>>
  /\ rolePerms = <<>>
  /\ lastP = <<>>
  /\ lockStore = "none"
  /\ lreqs = [i \in ReqIds |-> IdleLReq]
  /\ roleRows = <<>>
  /\ userExists = TRUE
  /\ summary = <<>>

NextLock ==
  \/ \E i \in ReqIds, op \in {"acquireLock", "tryLock", "executeWithLock"} :
       L_Set(i, op)
  \/ L_Expire
  \/ \E i \in ReqIds : L_Release(i)

SpecLock == InitLock /\ [][NextLock]_vars

\* --------------------------------------------------- permission summary
\* getPermissionSummary for the users of a plan as PlanService.create and
\* the participant requests of non-owners leave it
NoSummary ==
  [user |-> 0, kind |-> "none", role |-> null, canView |-> FALSE,
   canCreateTask |-> FALSE, canModifyTask |-> FALSE, canDeleteTask |-> FALSE,
   canModifyPlan |-> FALSE, canDeletePlan |-> FALSE, canInviteMembers |-> FALSE,
   canRemoveMembers |-> FALSE, canChangeRoles |-> FALSE]

\* PlanPermissionService.getPermissionSummary; canViewPlan throws NotFound
\* for a plan that does not exist
getPermissionSummary(exists, pub, parts, userId) ==
  LET role == getUserRole(parts, userId) IN
    IF role = null
      THEN IF canViewPlan(exists, pub, parts, userId).kind # "ok"
             THEN [NoSummary EXCEPT !.user = userId, !.kind = "NotFound"]
             ELSE [NoSummary EXCEPT !.user = userId, !.kind = "ok",
                     !.canView = (canViewPlan(exists, pub, parts, userId).msg = "true")]
      ELSE [user |-> userId, kind |-> "ok", role |-> role, canView |-> TRUE,
            canCreateTask |-> canCreateTask(parts, userId),
            canModifyTask |-> canModifyTask(parts, userId),
            canDeleteTask |-> canDeleteTask(parts, userId),
            canModifyPlan |-> canModifyPlan(parts, userId),
            canDeletePlan |-> canDeletePlan(parts, userId),
            canInviteMembers |-> canInviteMembers(parts, userId),
            canRemoveMembers |-> TRUE,
            canChangeRoles |-> canChangeRole(parts, userId)]

GetPermissionSummary(userId) ==
  /\ summary' = getPermissionSummary(planExists, is_public, participants, userId)
  /\ UNCHANGED <<planVars, roleVars, concVars, raceVars, tripVars, replaceVars,
                 permVars, lockVars, adminVars, acctVars>>

InitSummary ==
  /\ planExists = TRUE
  /\ is_public \in BOOLEAN
  /\ creator = 1
  /\ participants \in {f \in [Users -> RoleOrNull] :
                         f[1] = "owner" /\ \A u \in Users \ {1} : f[u] # "owner"}
  /\ last = [op |-> "none", kind |-> "ok", msg |-> ""]
  /\ userRoles = {}
  /\ rolesAtStart = {}
  /\ lastR = [op |-> "none", kind |-> "ok", missing |-> <<>>]
  /\ reqs = <<>>
  /\ rreqs = <<>>
  /\ trip = <<>>
  /\ ureqs = <<>>
  /\ rolePerms = <<>>
  /\ lastP = <<>>
  /\ lockStore = <<>>
  /\ lreqs = <<>>
  /\ roleRows = <<>>
  /\ userExists = TRUE
  /\ summary = NoSummary

NextSummary == \E userId \in Users : GetPermissionSummary(userId)

SpecSummary == InitSummary /\ [][NextSummary]_vars

\* ------------------------------------------------------ user accounts
\* Creation of the user row, followed by role requests for that user.
AcctUnchanged ==
  UNCHANGED <<planVars, concVars, raceVars, tripVars, replaceVars, permVars,
              lockVars, adminVars, sumVars>>

\* UserService.create: user.create without user_roles rows; a phone that is
\* registered already is refused
CreateUser ==
  /\ lastR' = ROutcome("create", IF userExists THEN RErr("Error", <<>>) ELSE ROk)
  /\ userExists' = TRUE
  /\ UNCHANGED userRoles
  /\ AcctUnchanged

\* AuthService.register: findByPhone, userService.create, createAuthRelation
Register ==
  /\ lastR' = ROutcome("register", IF userExists THEN RErr("Conflict", <<>>) ELSE ROk)
  /\ userExists' = TRUE
  /\ UNCHANGED userRoles
  /\ AcctUnchanged

\* AuthService.phoneLogin: verifyCode, then find or create the user
PhoneLogin(isValid) ==
  /\ lastR' = ROutcome("phoneLogin", IF isValid THEN ROk ELSE RErr("Unauthorized", <<>>))
  /\ userExists' = (userExists \/ isValid)
  /\ UNCHANGED userRoles
  /\ AcctUnchanged

InitAccounts ==
  /\ planExists = FALSE
  /\ is_public = FALSE
  /\ creator = 0
  /\ participants = NoParticipants
  /\ last = [op |-> "none", kind |-> "ok", msg |-> ""]
  /\ userRoles = {}
  /\ rolesAtStart = {}
  /\ lastR = [op |-> "none", kind |-> "ok", missing |-> <<>>]
  /\ reqs = <<>>
  /\ rreqs = <<>>
  /\ trip = <<>>
  /\ ureqs = <<>>
  /\ rolePerms = <<>>
  /\ lastP = <<>>
  /\ lockStore = <<>>
  /\ lreqs = <<>>
  /\ roleRows = <<>>
  /\ userExists = FALSE
  /\ summary = <<>>

\* the role requests reach the user's rows only once findByIdentifier has
\* found the user
NextAccounts ==
  \/ CreateUser
  \/ Register
  \/ \E isValid \in BOOLEAN : PhoneLogin(isValid)
  \/ userExists /\ \E roleCodes \in CodeLists : AssignRoles(roleCodes)
  \/ userExists /\ \E roleCode \in AllCodes : RemoveRole(roleCode)
  \/ userExists /\ \E roleCodes \in CodeLists : UpdateUserRoles(roleCodes)

SpecAccounts == InitAccounts /\ [][NextAccounts]_vars

\* ------------------------------------------------- roles administration
\* RoleService on two rows of the roles table as seeded: admin (is_system)
\* and moderator (not is_system), and a role id without row.
AdminRoles == {"admin", "moderator"}
RoleRefs == AdminRoles \cup {"nonexistent"}

NoRole == [exists |-> FALSE, name |-> "", description |-> "", is_system |-> FALSE]

SeedRoles ==
  [r \in AdminRoles |->
     [exists |-> TRUE,
      name |-> IF r = "admin" THEN "Super Admin" ELSE "Moderator",
      description |-> "seed",
      is_system |-> (r = "admin")]]

SeedAdminPerms == [r \in AdminRoles |-> IF r = "admin" THEN PermCodes ELSE {"plan:read"}]

\* UpdateRoleDto: name, description and permissions are optional
NameArgs == {null, "Super Admin", "Moderator", "Renamed"}
DescriptionArgs == {null, "changed"}
PermissionArgs ==
  {[given |-> FALSE, codes |-> <<>>]} \cup {[given |-> TRUE, codes |-> l] : l \in PermLists}

AdminUnchanged ==
  UNCHANGED <<planVars, roleVars, concVars, raceVars, tripVars, replaceVars,
              lockVars, acctVars, sumVars>>

roleFound(rows, roleId) == roleId \in AdminRoles /\ rows[roleId].exists

\* updateRolePermissions on the rows of the roles table: a system role only
\* causes a warning in the log
updateRolePermissionsKind(rows, roleId) ==
  IF ~roleFound(rows, roleId) THEN "NotFound" ELSE "ok"

\* RoleService.updateRolePermissions
RA_UpdateRolePermissions(roleId, permissionCodes) ==
  /\ LET kind == updateRolePermissionsKind(roleRows, roleId) IN
       /\ lastP' = [IdleP EXCEPT !.op = "updateRolePermissions", !.kind = kind]
       /\ rolePerms' = IF kind = "ok"
            THEN [rolePerms EXCEPT ![roleId] = updatedPermissions(@, permissionCodes)]
            ELSE rolePerms
  /\ UNCHANGED roleRows
  /\ AdminUnchanged

\* updateRole: the role must exist and a new name must not be the name of
\* another role; the system-role check is commented out
updateRoleKind(rows, roleId, name) ==
  IF ~roleFound(rows, roleId) THEN "NotFound"
  ELSE IF /\ name # null
          /\ name # rows[roleId].name
          /\ \E r \in AdminRoles \ {roleId} : rows[r].exists /\ rows[r].name = name
    THEN "Conflict"
  ELSE "ok"

\* RoleService.updateRole: updateRolePermissions when a permissions list is
\* given, then role.update of name and description
UpdateRole(roleId, name, description, permissions) ==
  /\ LET kind == updateRoleKind(roleRows, roleId, name) IN
       /\ lastP' = [IdleP EXCEPT !.op = "updateRole", !.kind = kind]
       /\ rolePerms' = IF kind = "ok" /\ permissions.given
            THEN [rolePerms EXCEPT ![roleId] = updatedPermissions(@, permissions.codes)]
            ELSE rolePerms
       /\ roleRows' = IF kind = "ok"
            THEN [roleRows EXCEPT ![roleId] =
                   [@ EXCEPT !.name = IF name = null THEN @ ELSE name,
                             !.description = IF description = null THEN @ ELSE description]]
            ELSE roleRows
  /\ AdminUnchanged

\* deleteRole: a system role and a role some user holds are refused
deleteRoleKind(rows, held, roleId) ==
  IF ~roleFound(rows, roleId) THEN "NotFound"
  ELSE IF rows[roleId].is_system THEN "BadRequest"
  ELSE IF roleId \in held THEN "BadRequest"
  ELSE "ok"

\* RoleService.deleteRole: role.delete, which cascades to role_permissions
DeleteRole(roleId) ==
  /\ LET kind == deleteRoleKind(roleRows, userRoles, roleId) IN
       /\ lastP' = [IdleP EXCEPT !.op = "deleteRole", !.kind = kind]
       /\ roleRows' = IF kind = "ok" THEN [roleRows EXCEPT ![roleId] = NoRole] ELSE roleRows
       /\ rolePerms' = IF kind = "ok" THEN [rolePerms EXCEPT ![roleId] = {}] ELSE rolePerms
  /\ AdminUnchanged

InitRoleAdmin ==
  /\ planExists = FALSE
  /\ is_public = FALSE
  /\ creator = 0
  /\ participants = NoParticipants
  /\ last = [op |-> "none", kind |-> "ok", msg |-> ""]
  /\ userRoles \in SUBSET AdminRoles
  /\ rolesAtStart = userRoles
  /\ lastR = [op |-> "none", kind |-> "ok", missing |-> <<>>]
  /\ reqs = <<>>
  /\ rreqs = <<>>
  /\ trip = <<>>
  /\ ureqs = <<>>
  /\ rolePerms = SeedAdminPerms
  /\ lastP = IdleP
  /\ lockStore = <<>>
  /\ lreqs = <<>>
  /\ roleRows = SeedRoles
  /\ userExists = TRUE
  /\ summary = <<>>

NextRoleAdmin ==
  \/ \E roleId \in RoleRefs, permissionCodes \in PermLists :
       RA_UpdateRolePermissions(roleId, permissionCodes)
  \/ \E roleId \in RoleRefs, name \in NameArgs, description \in DescriptionArgs,
        permissions \in PermissionArgs :
       UpdateRole(roleId, name, description, permissions)
  \/ \E roleId \in RoleRefs : DeleteRole(roleId)

SpecRoleAdmin == InitRoleAdmin /\ [][NextRoleAdmin]_vars

\* ================================================================ claims
owners(parts) == {u \in Users : parts[u] = "owner"}

\* C1: after any sequence of plan operations executed one at a time, every
\* existing plan has exactly one participant whose role is owner.
C1_ExactlyOneOwner ==
  planExists => Cardinality(owners(participants)) = 1

\* the rule of the remove-member decision, written out role by role
RemoveRule(parts, o, t) ==
  /\ parts[o] # null
  /\ parts[t] # null
  /\ parts[o] \in {"admin", "owner"}
  /\ \/ parts[o] = "owner" /\ parts[t] # "owner"
     \/ parts[o] = "admin" /\ parts[t] \in {"member", "viewer"}

\* C5: canRemoveMember(O, T) is true exactly when both are participants, O is
\* at least admin, and O is owner and T is not, or O is admin and T is a
\* member or viewer; removeParticipant deletes T's row, and only that row,
\* only when the predicate is true.
C5_RemoveStep ==
  \A o \in Users, ref \in UserRefs :
    (RemoveParticipant(ref, o) /\ participants' # participants)
      => /\ ref \in Users
         /\ RemoveRule(participants, o, ref)
         /\ participants' = [participants EXCEPT ![ref] = null]

C5_CanRemoveMember ==
  /\ [](\A o \in Users, t \in Users :
          canRemoveMember(participants, o, t) <=> RemoveRule(participants, o, t))
  /\ [][C5_RemoveStep]_vars

\* a participant has been removed from a plan that has an owner and an admin
C5_Witness ==
  /\ last.op = "removeParticipant"
  /\ last.kind = "ok"
  /\ \E a \in Users, b \in Users : participants[a] = "owner" /\ participants[b] = "admin"
  /\ \E t \in Users : participants[t] = null

\* C6: each capability predicate equals "participant with rank at least the
\* required rank": member for create/modify task, admin for delete task,
\* modify plan and invite, owner for delete plan and change role; a
\* non-participant is denied all of them.
C6_Capabilities ==
  \A u \in Users :
    /\ canCreateTask(participants, u) <=> participants[u] \in {"member", "admin", "owner"}
    /\ canModifyTask(participants, u) <=> participants[u] \in {"member", "admin", "owner"}
    /\ canDeleteTask(participants, u) <=> participants[u] \in {"admin", "owner"}
    /\ canModifyPlan(participants, u) <=> participants[u] \in {"admin", "owner"}
    /\ canInviteMembers(participants, u) <=> participants[u] \in {"admin", "owner"}
    /\ canDeletePlan(participants, u) <=> participants[u] = "owner"
    /\ canChangeRole(participants, u) <=> participants[u] = "owner"

\* a plan with an owner, an admin and a viewer
C6_Witness ==
  /\ planExists
  /\ \E a \in Users, b \in Users, c \in Users :
       /\ participants[a] = "owner"
       /\ participants[b] = "admin"
       /\ participants[c] = "viewer"

\* C7: a successful transferOwnership(caller, target) leaves the caller
\* admin, the target owner, Plan.creator = target and exactly one owner.
C7_TransferStep ==
  \A c \in Users, n \in Users :
    (TransferOwnership(c, n) /\ last'.kind = "ok")
      => /\ participants'[c] = "admin"
         /\ participants'[n] = "owner"
         /\ creator' = n
         /\ Cardinality(owners(participants')) = 1

C7_Transfer == [][C7_TransferStep]_vars

\* C8: a private plan is viewable only by a supplied user id that is a
\* participant: for a request without user id and for a non-participant,
\* canViewPlan and canViewTasks are false and findOne and findPlanTasks refuse.
C8_PrivatePlanHidden ==
  \A u \in 0..NumUsers :
    (planExists /\ ~is_public /\ (u = 0 \/ participants[u] = null))
      => /\ canViewPlan(planExists, is_public, participants, u).msg = "false"
         /\ canViewTasks(planExists, is_public, participants, u).msg = "false"
         /\ findOne(planExists, is_public, participants, u).kind = "Forbidden"
         /\ findPlanTasks(planExists, is_public, participants, u).kind = "Forbidden"

\* C9 as stated: updateParticipantRole on oneself fails with Forbidden for an
\* operator of any rank and changes no role.
C9_SelfStepOriginal ==
  \A o \in Users, role \in ParticipantRole :
    UpdateParticipantRole(o, o, role)
      => last'.kind = "Forbidden" /\ participants' = participants

C9_SelfStep ==
  \A o \in Users, role \in ParticipantRole :
    UpdateParticipantRole(o, o, role)
      => /\ last'.kind = IF participants[o] = "owner" THEN "Conflict" ELSE "Forbidden"
         /\ participants' = participants

C10_OwnerStepOriginal ==
  \A o \in Users, t \in Users, role \in ParticipantRole :
    UpdateParticipantRole(o, t, role)
      => /\ participants[t] = "owner" => last'.kind = "Forbidden"
         /\ owners(participants') = owners(participants)

C10_OwnerStep ==
  \A o \in Users, t \in UserRefs, role \in ParticipantRole :
    UpdateParticipantRole(o, t, role)
      => /\ (t \in Users /\ participants[t] = "owner")
             => /\ last'.kind = IF t = o THEN "Conflict" ELSE "Forbidden"
                /\ participants' = participants
         /\ owners(participants') = owners(participants)

C2_AtLeastOneRole == rolesAtStart # {} => userRoles # {}

\* a role was removed from a user, leaving exactly one
C2_Witness ==
  /\ rolesAtStart # {}
  /\ lastR.op = "removeRole"
  /\ lastR.kind = "ok"
  /\ Cardinality(userRoles) = 1

\* C3: when transferOwnership, updateParticipantRole, leavePlan and
\* removeParticipant requests on one plan interleave at store-call
\* boundaries, the plan has exactly one owner once all requests have finished.
C3_OneOwnerAfterRace ==
  (\A i \in ReqIds : reqs[i].pc = "done")
    => Cardinality(owners(participants)) = 1

\* C4: two concurrent removeRole requests for the two different roles of a
\* user holding exactly two roles: at most one succeeds and the user is never
\* left with zero roles.
C4_RemoveRace ==
  (/\ Cardinality(rolesAtStart) = 2
   /\ {rreqs[i].code : i \in ReqIds} = rolesAtStart)
    => /\ userRoles # {}
       /\ ~(\A i \in ReqIds : rreqs[i].res = "ok")

\* C11 as stated: inviteParticipant with role admin or owner by an inviter who
\* is not the plan's owner fails with Forbidden and creates no participant row.
C11_InviteStepOriginal ==
  \A u \in Users, ref \in UserRefs, role \in {"admin", "owner"} :
    (InviteParticipant(u, ref, role) /\ participants[u] # "owner")
      => last'.kind = "Forbidden" /\ participants' = participants

C11_Original == [][C11_InviteStepOriginal]_vars

C11_InviteStep ==
  \A u \in Users, ref \in UserRefs, role \in {"admin", "owner"} :
    (InviteParticipant(u, ref, role) /\ participants[u] # "owner")
      => /\ participants' = participants
         /\ last'.kind =
              IF participants[u] # "admin" THEN "Forbidden"
              ELSE IF ref = 0 THEN "BadRequest"
              ELSE IF ref \notin Users THEN "NotFound"
              ELSE IF participants[ref] # null THEN "Conflict"
              ELSE "Forbidden"

\* C11 (amended): inviteParticipant with role admin or owner by an inviter who
\* is not the plan's owner always fails and creates no participant row; an
\* inviter below admin gets Forbidden, and an admin gets BadRequest or NotFound
\* when the identifier resolves to no user, Conflict when the user is already
\* a participant, and Forbidden otherwise.
C11_ElevatedInvite == [][C11_InviteStep]_vars

\* an admin has been refused an invitation with an elevated role
C11_Witness ==
  /\ last.op = "inviteParticipant"
  /\ last.kind = "Forbidden"
  /\ last.msg = "Only owner can invite admin or owner"
  /\ \E u \in Users : participants[u] = "admin"

C12_SoleRoleStep ==
  \A c \in RoleCodes :
    (RemoveRole(c) /\ userRoles = {c})
      => lastR'.kind = "Conflict" /\ userRoles' = userRoles

\* C12: removeRole(U, X) when X is the only role U holds fails with Conflict
\* and leaves U's role set unchanged.
C12_SoleRole == [][C12_SoleRoleStep]_vars

\* the removal of a user's only role has been refused
C12_Witness ==
  /\ lastR.op = "removeRole"
  /\ lastR.kind = "Conflict"
  /\ Cardinality(userRoles) = 1

C13_AssignStep ==
  \A roleCodes \in CodeLists :
    AssignRoles(roleCodes)
      => IF \E i \in DOMAIN roleCodes : roleCodes[i] \notin RoleCodes
           THEN lastR'.kind = "NotFound" /\ userRoles' = userRoles
         ELSE IF Range(roleCodes) \subseteq userRoles
           THEN lastR'.kind = "Conflict" /\ userRoles' = userRoles
         ELSE /\ lastR'.kind = "ok"
              /\ userRoles' = userRoles \cup Range(roleCodes)

\* C13: assignRoles fails with NotFound when some requested code resolves to
\* no role and with Conflict when every requested role is already held, both
\* leaving the role set unchanged; otherwise it succeeds and adds exactly the
\* requested roles the user did not hold.
C13_AllOrNothing == [][C13_AssignStep]_vars

C14_NotFoundStep ==
  \A roleCodes \in CodeLists :
    ((AssignRoles(roleCodes) \/ UpdateUserRoles(roleCodes)) /\ lastR'.kind = "NotFound")
      => /\ \E i \in DOMAIN roleCodes : roleCodes[i] \notin RoleCodes
         /\ lastR'.missing # <<>>
         /\ Range(lastR'.missing) = Range(roleCodes) \ RoleCodes

\* C14: assignRoles and replaceRoles raise NotFound only when some requested
\* code resolves to no role, and the error names exactly the requested codes
\* that did not resolve (a non-empty list), also for lists repeating a code.
C14_MissingCodes == [][C14_NotFoundStep]_vars

C15_ReplaceStep ==
  \A roleCodes \in CodeLists :
    UpdateUserRoles(roleCodes)
      => /\ (lastR'.kind = "ok" /\ roleCodes # <<>>
               /\ Range(roleCodes) \subseteq RoleCodes)
              => userRoles' = Range(roleCodes)
         /\ roleCodes = <<>>
              => lastR'.kind = "Conflict" /\ userRoles' = userRoles

\* C15: after a successful replaceRoles with a non-empty list of resolvable
\* codes the role set is exactly the set named by the codes, whatever was
\* held before; replaceRoles with an empty list fails with Conflict and
\* leaves the role set unchanged.
C15_ExactReplacement == [][C15_ReplaceStep]_vars

\* a replacement has dropped every role the user held before
C15_Witness ==
  /\ lastR.op = "updateUserRoles"
  /\ lastR.kind = "ok"
  /\ rolesAtStart # {}
  /\ userRoles \cap rolesAtStart = {}

\* the pair assignRoles(U, [X]); removeRole(U, X) has run for a role X that
\* exists and that U did not hold
RoundTripDone(X) ==
  /\ trip.phase = "removed"
  /\ trip.codes = <<X>>
  /\ trip.code = X
  /\ X \notin rolesAtStart

\* C17: for a user holding at least two roles and an existing role X not
\* held, assignRoles(U, [X]) followed by removeRole(U, X) both succeed and
\* leave the role set the user had before the assignment.
C17_RoundTrip ==
  \A X \in RoleCodes :
    (RoundTripDone(X) /\ Cardinality(rolesAtStart) >= 2)
      => trip.assign = "ok" /\ trip.remove = "ok" /\ userRoles = rolesAtStart

\* a user with two roles has been given a third and has lost it again
C17_Witness ==
  /\ \E X \in RoleCodes : RoundTripDone(X)
  /\ Cardinality(rolesAtStart) = 2
  /\ trip.remove = "ok"
  /\ userRoles = rolesAtStart

\* C18 as stated: for a user holding exactly one role the removeRole(U, X)
\* that follows the successful assignRoles(U, [X]) fails with Conflict.
C18_Original ==
  \A X \in RoleCodes :
    (RoundTripDone(X) /\ Cardinality(rolesAtStart) = 1)
      => trip.assign = "ok" /\ trip.remove = "Conflict"

\* C18 (amended): for a user holding exactly one role the removeRole(U, X)
\* that follows the successful assignRoles(U, [X]) succeeds, because U holds
\* two roles when it runs, and U is back to the one role held before; only
\* for a user holding no role does it fail with Conflict, leaving U with X.
C18_RoundTripFewRoles ==
  \A X \in RoleCodes :
    /\ (RoundTripDone(X) /\ Cardinality(rolesAtStart) = 1)
         => trip.assign = "ok" /\ trip.remove = "ok" /\ userRoles = rolesAtStart
    /\ (RoundTripDone(X) /\ rolesAtStart = {})
         => trip.assign = "ok" /\ trip.remove = "Conflict" /\ userRoles = {X}

\* a user with one role has been given a second and has lost it again
C18_Witness ==
  /\ \E X \in RoleCodes : RoundTripDone(X)
  /\ Cardinality(rolesAtStart) = 1
  /\ trip.assign = "ok"
  /\ lastR.op = "removeRole"
  /\ lastR.kind = "ok"

heldPermissions == UNION {rolePerms[r] : r \in userRoles}

C19_QueryStep ==
  /\ (lastP'.op = "getUserPermissions" /\ GetUserPermissions)
       => /\ lastP'.kind = "ok"
          /\ Range(lastP'.result) = heldPermissions
          /\ Len(lastP'.result) = Cardinality(heldPermissions)
          /\ userRoles = {} => lastP'.result = <<>>
  /\ \A c \in AllPermCodes :
       (lastP'.op = "hasPermission" /\ HasPermission(c))
         => lastP'.has = (c \in heldPermissions)

\* C19: getUserPermissions returns exactly the union, without duplicates, of
\* the permission codes of all roles the user holds, the empty list when the
\* user holds no role; hasPermission(U, c) is true exactly when c is in that
\* union.
C19_PermissionUnion == [][C19_QueryStep]_vars

\* the permissions of a user were listed whose roles share a permission
C19_Witness ==
  /\ lastP.op = "getUserPermissions"
  /\ Len(lastP.result) = 2
  /\ \E r1 \in userRoles, r2 \in userRoles :
       r1 # r2 /\ rolePerms[r1] \cap rolePerms[r2] # {}

C20_UpdateStep ==
  \A R \in RoleCodes, codes \in PermLists :
    UpdateRolePermissions(R, codes)
      => /\ lastP'.kind = "ok"
         /\ rolePerms'[R] = {c \in PermCodes : \E i \in DOMAIN codes : codes[i] = c}
         /\ lastP'.repeated => rolePerms' = rolePerms

\* C20: updateRolePermissions(R, codes) called again with the same list
\* leaves R with the permission set it had after the first call, and that
\* set is determined by the list alone, not by what R held before.
C20_Idempotent == [][C20_UpdateStep]_vars

\* the same list was applied twice to a role and differs from the seed
C20_Witness ==
  /\ lastP.op = "updateRolePermissions"
  /\ lastP.repeated
  /\ lastP.role \in RoleCodes
  /\ rolePerms[lastP.role] # SeedPerms[lastP.role]
  /\ rolePerms[lastP.role] # {}

C22_AbsentTargetStep ==
  \A o \in Users, t \in Users :
    (/\ RemoveParticipant(t, o)
     /\ participants[o] \in {"owner", "admin"}
     /\ participants[t] = null)
      => last'.kind = "NotFound" /\ last'.msg = "Participant not found"

\* C22: removeParticipant by an owner or admin against an existing user who
\* is not a participant of the plan fails with NotFound ('Participant not
\* found'), not with the Forbidden of a rank rule.
C22_NotFoundNotForbidden == [][C22_AbsentTargetStep]_vars

C23_LeaveStep ==
  \A u \in Users :
    LeavePlan(u)
      => /\ participants[u] = "owner"
              => last'.kind # "ok" /\ participants' = participants
         /\ participants[u] \in ParticipantRole \ {"owner"}
              => /\ last'.kind = "ok"
                 /\ participants' = [participants EXCEPT ![u] = null]
         /\ planExists' = planExists /\ creator' = creator

\* C23: leavePlan by a participant whose role is owner always fails and
\* removes no participant row; leavePlan by a participant with any other role
\* removes exactly that user's row and nothing else.
C23_LeavePlan == [][C23_LeaveStep]_vars

\* a non-owner has left a plan that keeps its owner and another participant
C23_Witness ==
  /\ last.op = "leavePlan"
  /\ last.kind = "ok"
  /\ Cardinality({u \in Users : participants[u] # null}) = 2

\* a request made by userId, who is not an owner of the plan
ByNonOwner(userId) ==
  /\ participants[userId] # "owner"
  /\ \/ JoinPlan(userId)
     \/ LeavePlan(userId)
     \/ \E ref \in UserRefs, role \in RoleOrNull : InviteParticipant(userId, ref, role)
     \/ \E ref \in UserRefs : RemoveParticipant(ref, userId)
     \/ \E ref \in UserRefs, role \in ParticipantRole :
          UpdateParticipantRole(userId, ref, role)
     \/ \E n \in Users : TransferOwnership(userId, n)

C28_NonOwnerStep ==
  \A userId \in Users :
    (participants' # participants /\ planExists /\ ByNonOwner(userId))
      => \A t \in Users :
           participants'[t] \in {"admin", "owner"}
             => participants'[t] = participants[t]

\* C28: within an existing plan no request made by a user who is not an
\* owner of the plan (joinPlan, inviteParticipant, removeParticipant,
\* updateParticipantRole, leavePlan, transferOwnership) gives any participant
\* the role admin or owner.
C28_NoEscalation == [][C28_NonOwnerStep]_vars

\* an admin has added a participant, who did not get an elevated role
C28_Witness ==
  /\ last.op = "inviteParticipant"
  /\ last.kind = "ok"
  /\ Cardinality(owners(participants)) = 1
  /\ \E u \in Users : participants[u] = "admin"
  /\ \E u \in Users : participants[u] \in {"member", "viewer"}

\* C29: Plan.creator of the existing plan is the user id of a participant of
\* the plan whose role is owner.
C29_CreatorIsOwner ==
  planExists => (creator \in Users /\ participants[creator] = "owner")

\* ownership has been transferred to another participant
C29_Witness ==
  /\ planExists
  /\ last.op = "transferOwnership"
  /\ last.kind = "ok"
  /\ \E u \in Users : participants[u] = "admin"

C25_UnknownCodeStep ==
  \A R \in RoleCodes, codes \in PermLists :
    (/\ UpdateRolePermissions(R, codes)
     /\ \E i \in DOMAIN codes : codes[i] \notin PermCodes)
      => lastP'.kind = "BadRequest" /\ rolePerms' = rolePerms

\* C25: updateRolePermissions given a list containing a permission code that
\* does not exist is rejected with a 400 error and leaves the role's
\* permission set unchanged.
C25_UnknownCodeRejected == [][C25_UnknownCodeStep]_vars

\* C26: two callers never hold the lock on K at the same time while neither
\* lock's TTL has expired.
C26_MutualExclusion ==
  ~(\A i \in ReqIds : lreqs[i].pc = "holding" /\ lreqs[i].live)

C27_ReleaseStep ==
  \A i \in ReqIds :
    (L_Release(i) /\ lockStore # i) => lockStore' = lockStore

\* C27: releaseLock(K, v) removes the lock on K only when v is the value
\* stored by the current holder; a caller whose lock expired and was then
\* acquired by another caller does not release the new holder's lock.
C27_ReleaseOwnLockOnly == [][C27_ReleaseStep]_vars

\* C30: every capability flag reported by getPermissionSummary is true only
\* if the user holds the capability: canRemoveMembers only for a rank of at
\* least admin, every other flag equal to its can* predicate.
C30_SummaryFaithful ==
  summary.kind = "ok"
    => /\ summary.canRemoveMembers => hasRole(participants, summary.user, "admin")
       /\ summary.canView
            = (canViewPlan(planExists, is_public, participants, summary.user).msg = "true")
       /\ summary.canCreateTask = canCreateTask(participants, summary.user)
       /\ summary.canModifyTask = canModifyTask(participants, summary.user)
       /\ summary.canDeleteTask = canDeleteTask(participants, summary.user)
       /\ summary.canModifyPlan = canModifyPlan(participants, summary.user)
       /\ summary.canDeletePlan = canDeletePlan(participants, summary.user)
       /\ summary.canInviteMembers = canInviteMembers(participants, summary.user)
       /\ summary.canChangeRoles = canChangeRole(participants, summary.user)

\* C24: every user that exists holds at least one global role at all times,
\* including immediately after its creation.
C24_UserHasRole == userExists => userRoles # {}

\* a request of the roles administration on role R
OnRole(R) ==
  \/ \E permissionCodes \in PermLists : RA_UpdateRolePermissions(R, permissionCodes)
  \/ \E name \in NameArgs, description \in DescriptionArgs,
        permissions \in PermissionArgs : UpdateRole(R, name, description, permissions)
  \/ DeleteRole(R)

C21_SystemRoleStep ==
  \A R \in AdminRoles :
    (roleRows[R].exists /\ roleRows[R].is_system /\ OnRole(R))
      => /\ lastP'.kind # "ok"
         /\ roleRows'[R] = roleRows[R]
         /\ rolePerms'[R] = rolePerms[R]

\* C21: updateRole, updateRolePermissions and deleteRole applied to a role
\* with is_system = true fail and leave the role's name, description and
\* permission set unchanged.
C21_SystemRoleImmutable == [][C21_SystemRoleStep]_vars

====
